---- MODULE Spec2Model ----
(***************************************************************************)
(* A model of abipy's static unit-cell registry (abipy/data/ucells.py) and *)
(* of the abinp.py command-line front end (abipy/scripts/abinp.py).        *)
(*                                                                         *)
(* Python objects live in a heap: a dict or a list is an address, and a    *)
(* value is either a number or a reference to an address, so that aliasing *)
(* between a stored record and a copy of it is visible.  Floats are scaled *)
(* by 10^4 (10.217 is 102170, 0.5 is 5000).                                *)
(*                                                                         *)
(* The command line is modelled for invocations without -h/--help and      *)
(* -V/--version, and argparse behaves as in Python 3 (a missing            *)
(* sub-command is not a parse error, parser.error() raises SystemExit(2)). *)
(***************************************************************************)
EXTENDS Integers, Sequences, FiniteSets, TLC

VARIABLES
    heap,       \* address -> Python object (dict or list)
    returned,   \* sequence of [name, addr]: the records ucell() handed out
    mutated,    \* indices of `returned` through which a caller has written
    keyError,   \* TRUE when the last ucell() call raised KeyError
    nmut,       \* number of caller mutations so far
    argv,       \* the command line of this invocation
    env,        \* the filesystem: whether argv's filepath exists
    pc,         \* "start" | "dispatch" | "exit"
    options,    \* the argparse namespace (argv's fields after a good parse)
    exitcode,   \* process exit status, meaningful when pc = "exit"
    exc,        \* uncaught exception that ended the process, or "none"
    stdout,     \* what was printed, in order
    stderr,     \* what was written to sys.stderr, in order
    calls,      \* external collaborators called, in order
    retcodes,   \* return codes of the abinit subprocesses run, in order
    factoryOut, \* the datasets as the factory returned them
    deck        \* the datasets as handed to finalize

ucellVars == <<heap, returned, mutated, keyError, nmut>>
cliVars == <<argv, env, pc, options, exitcode, exc, stdout, stderr, calls, retcodes,
            factoryOut, deck>>
vars == <<heap, returned, mutated, keyError, nmut,
          argv, env, pc, options, exitcode, exc, stdout, stderr, calls, retcodes,
            factoryOut, deck>>

(***************************************************************************)
(* Bounds                                                                  *)
(***************************************************************************)
MaxCalls == 2       \* ucell() calls per behaviour
MaxMutations == 2   \* caller writes per behaviour
MaxN == 3           \* datasets a factory may return
MaxNdtset == 2      \* datasets in an input file

(***************************************************************************)
(* Python values and objects                                               *)
(***************************************************************************)
Num(n) == [k |-> "num", n |-> n]
Ref(a) == [k |-> "ref", n |-> a]
NoItems == <<>>
List(items) == [kind |-> "list", d |-> NoItems, l |-> items]
Dict(items) == [kind |-> "dict", d |-> items, l |-> NoItems]
Nums(s) == List([i \in DOMAIN s |-> Num(s[i])])
Refs(s) == List([i \in DOMAIN s |-> Ref(s[i])])

\* The values a caller's mutation writes: ones that occur nowhere in _UCELLS.
MutVals == {-1}

Names == {"silicon", "zno"}
LookupNames == Names \cup {"nonexistent"}

\* The module-level literal `_UCELLS = {...}`: evaluating it allocates one dict
\* per entry and one list per bracket.  Addresses 1 and 2 are the two records.
_UCELLS == [silicon |-> 1, zno |-> 2]

HeapAtImport ==
    (1 :> Dict([ntypat |-> Num(1), natom |-> Num(2), typat |-> Ref(3),
                znucl |-> Num(14), acell |-> Ref(4), rprim |-> Ref(5),
                xred |-> Ref(9)]))
 @@ (2 :> Dict([ntypat |-> Num(2), natom |-> Num(2), typat |-> Ref(12),
                acell |-> Ref(13), rprim |-> Ref(14), znucl |-> Ref(18),
                xred |-> Ref(19)]))
 @@ (3 :> Nums(<<1, 1>>))
 @@ (4 :> Nums(<<102170, 102170, 102170>>))
 @@ (5 :> Refs(<<6, 7, 8>>))
 @@ (6 :> Nums(<<0, 5000, 5000>>))
 @@ (7 :> Nums(<<5000, 0, 5000>>))
 @@ (8 :> Nums(<<5000, 5000, 0>>))
 @@ (9 :> Refs(<<10, 11>>))
 @@ (10 :> Nums(<<0, 0, 0>>))
 @@ (11 :> Nums(<<2500, 2500, 2500>>))
 @@ (12 :> Nums(<<1, 2>>))
 @@ (13 :> Nums(<<86277, 86277, 86277>>))
 @@ (14 :> Refs(<<15, 16, 17>>))
 @@ (15 :> Nums(<<0, 5000, 5000>>))
 @@ (16 :> Nums(<<5000, 0, 5000>>))
 @@ (17 :> Nums(<<5000, 5000, 0>>))
 @@ (18 :> Nums(<<30, 8>>))
 @@ (19 :> Refs(<<20, 21>>))
 @@ (20 :> Nums(<<0, 0, 0>>))
 @@ (21 :> Nums(<<2500, 2500, 2500>>))

\* The next free address of heap h.
Fresh(h) == Cardinality(DOMAIN h) + 1

\* The value a Python == comparison looks at: the object graph below v,
\* with addresses forgotten.
RECURSIVE Deep(_, _)
Deep(h, v) ==
    IF v.k = "num" THEN [k |-> "num", n |-> v.n, d |-> NoItems, l |-> NoItems]
    ELSE LET o == h[v.n] IN
         [k |-> o.kind, n |-> 0,
          d |-> [key \in DOMAIN o.d |-> Deep(h, o.d[key])],
          l |-> [i \in DOMAIN o.l |-> Deep(h, o.l[i])]]

\* dict.copy(): a new dict object holding the same item references.
dict_copy(h, a) == [heap |-> h @@ (Fresh(h) :> Dict(h[a].d)), addr |-> Fresh(h)]

(***************************************************************************)
(* abipy/data/ucells.py                                                    *)
(***************************************************************************)
\* ucell_names(): list(_UCELLS.keys())
ucell_names == DOMAIN _UCELLS

\* ucell(name): _UCELLS[name].copy(); KeyError for an unknown name.
ucell(name) ==
    /\ Len(returned) < MaxCalls
    /\ IF name \in DOMAIN _UCELLS
       THEN LET c == dict_copy(heap, _UCELLS[name]) IN
            /\ heap' = c.heap
            /\ returned' = Append(returned, [name |-> name, addr |-> c.addr])
            /\ keyError' = FALSE
       ELSE /\ keyError' = TRUE
            /\ UNCHANGED <<heap, returned>>
    /\ UNCHANGED <<mutated, nmut>>
    /\ UNCHANGED cliVars

\* A caller rebinds a key of a record it was given: rec[key] = w.
CallerSetKey(i, key, w) ==
    /\ nmut < MaxMutations
    /\ i \in DOMAIN returned
    /\ key \in DOMAIN heap[returned[i].addr].d
    /\ heap' = [heap EXCEPT ![returned[i].addr].d[key] = Num(w)]
    /\ mutated' = mutated \cup {i}
    /\ nmut' = nmut + 1
    /\ UNCHANGED <<returned, keyError>>
    /\ UNCHANGED cliVars

\* A caller writes into a nested list in place: rec[key][j] = w.
CallerSetItem(i, key, j, w) ==
    /\ nmut < MaxMutations
    /\ i \in DOMAIN returned
    /\ key \in DOMAIN heap[returned[i].addr].d
    /\ LET v == heap[returned[i].addr].d[key] IN
       /\ v.k = "ref"
       /\ j \in DOMAIN heap[v.n].l
       /\ heap' = [heap EXCEPT ![v.n].l[j] = Num(w)]
    /\ mutated' = mutated \cup {i}
    /\ nmut' = nmut + 1
    /\ UNCHANGED <<returned, keyError>>
    /\ UNCHANGED cliVars

\* A caller writes into a row of rprim or xred in place: rec[key][j][c] = w.
CallerSetNested(i, key, j, c, w) ==
    /\ nmut < MaxMutations
    /\ i \in DOMAIN returned
    /\ key \in DOMAIN heap[returned[i].addr].d
    /\ LET v == heap[returned[i].addr].d[key] IN
       /\ v.k = "ref"
       /\ j \in DOMAIN heap[v.n].l
       /\ LET row == heap[v.n].l[j] IN
          /\ row.k = "ref"
          /\ c \in DOMAIN heap[row.n].l
          /\ heap' = [heap EXCEPT ![row.n].l[c] = Num(w)]
    /\ mutated' = mutated \cup {i}
    /\ nmut' = nmut + 1
    /\ UNCHANGED <<returned, keyError>>
    /\ UNCHANGED cliVars

Keys == {"ntypat", "natom", "typat", "znucl", "acell", "rprim", "xred"}
Cols == 1..3

UcellInit ==
    /\ heap = HeapAtImport
    /\ returned = <<>>
    /\ mutated = {}
    /\ keyError = FALSE
    /\ nmut = 0

(***************************************************************************)
(* abipy/scripts/abinp.py: the command line and the environment            *)
(***************************************************************************)
Verbs == {"validate", "autoparal", "abispg", "ibz", "phperts",
          "gs", "ebands", "phonons", "g0w0", "anaph", "wannier90"}
None == "None"          \* options.command when no sub-command was given
NoPath == <<>>          \* the positional filepath is absent from the command line
NoPseudos == <<>>       \* options.pseudos is None (nargs="+" never gives an empty list)

\* File paths are character sequences, so that startswith() is computed.
Paths == { <<"m", "p", "-", "1">>, <<"m", "p">>, <<"x", "m", "p", "-">>, <<"s", "i">> }
MpPrefix == <<"m", "p", "-">>
startswith(s, prefix) ==
    /\ Len(s) >= Len(prefix)
    /\ SubSeq(s, 1, Len(prefix)) = prefix

LogLevelArgs == {"ERROR", "debug", "bogus"}
JdtsetArgs == -1..(MaxNdtset + 1)

\* The command lines of the model.  With no sub-command, or with an unknown
\* one, nothing after it is looked at: only the global options vary.
SubArgs ==
    [filepath : Paths \cup {NoPath}, pseudos : {NoPseudos, <<"Si.psp8">>},
     usepaw : BOOLEAN, mnemonics : BOOLEAN, jdtset : JdtsetArgs, verbose : 0..1]
DefaultSubArgs ==
    [filepath |-> NoPath, pseudos |-> NoPseudos, usepaw |-> FALSE,
     mnemonics |-> FALSE, jdtset |-> 1, verbose |-> 0]
MkArgv(verb, loglevel, sub) ==
    [command |-> verb, loglevel |-> loglevel, filepath |-> sub.filepath,
     pseudos |-> sub.pseudos, usepaw |-> sub.usepaw, mnemonics |-> sub.mnemonics,
     jdtset |-> sub.jdtset, verbose |-> sub.verbose]
CommandLines ==
    {MkArgv(v, l, s) : v \in Verbs, l \in LogLevelArgs, s \in SubArgs}
    \cup {MkArgv(v, l, DefaultSubArgs) : v \in {None, "bogus"}, l \in LogLevelArgs}

\* What an external call answered is drawn when the call is made.
RetCodes == {0, 1, -9}              \* return code of the abinit subprocess
ExitStatus(n) == n % 256            \* sys.exit(n) as the parent process sees it

\* str.upper() on the log-level arguments of the model.
upper(s) == CASE s = "debug" -> "DEBUG" [] s = "bogus" -> "BOGUS" [] OTHER -> s
\* getattr(logging, name, None): the level names of the logging module.
LoggingLevels == {"CRITICAL", "ERROR", "WARNING", "INFO", "DEBUG"}

(***************************************************************************)
(* Outcomes: what a piece of straight-line code did before it returned or  *)
(* raised.  exc = "none" means it returned, and ret is its return value    *)
(* where that is an exit code.                                             *)
(***************************************************************************)
Returned(ret, out, cs, rcs) ==
    [exc |-> "none", ret |-> ret, out |-> out, calls |-> cs, rcs |-> rcs]
Raised(e, out, cs, rcs) ==
    [exc |-> e, ret |-> 0, out |-> out, calls |-> cs, rcs |-> rcs]
Call(name) == Returned(0, <<>>, <<name>>, <<>>)
CallRaises(name, e) == Raised(e, <<>>, <<name>>, <<>>)
Printed(text) == Returned(0, <<text>>, <<>>, <<>>)
Return(ret) == Returned(ret, <<>>, <<>>, <<>>)
Skip == Return(0)

\* a; b -- b runs only when a returned.
Then(a, b) ==
    IF a.exc # "none" THEN a
    ELSE [exc |-> b.exc, ret |-> b.ret, out |-> a.out \o b.out,
          calls |-> a.calls \o b.calls, rcs |-> a.rcs \o b.rcs]

(***************************************************************************)
(* Python containers                                                       *)
(***************************************************************************)
\* d[k] = v on a dict of input variables.
setitem(d, k, v) == [x \in DOMAIN d \cup {k} |-> IF x = k THEN v ELSE d[x]]
\* d.update(e)
update(d, e) == [x \in DOMAIN d \cup DOMAIN e |-> IF x \in DOMAIN e THEN e[x] ELSE d[x]]
NoVars == <<>>
\* seq[i] with Python's 0-based index i: negative indices count from the end.
index_ok(seq, i) == -Len(seq) <= i /\ i < Len(seq)
getitem(seq, i) == IF i < 0 THEN seq[Len(seq) + i + 1] ELSE seq[i + 1]

\* All sequences over S of length lo..hi.
SeqsOf(S, lo, hi) == UNION {[1..n -> S] : n \in lo..hi}

(***************************************************************************)
(* get_structure, get_pseudotable, finalize                                *)
(***************************************************************************)
\* abilab.Structure.from_file(path): the external parser; raises when the path
\* does not exist.
Structure_from_file(exists) ==
    IF exists THEN Call("Structure.from_file")
    ELSE CallRaises("Structure.from_file", "FileNotFoundError")

\* abilab.Structure.from_mpid(...): the remote lookup; mp is whether it answers.
Structure_from_mpid(mp) ==
    IF mp THEN Call("Structure.from_mpid")
    ELSE CallRaises("Structure.from_mpid", "MPRestError")

\* A get_structure that tests the "mp-" prefix before the filesystem.
get_structure_prefix_first(o, exists, mp) ==
    IF startswith(o.filepath, MpPrefix) THEN Structure_from_mpid(mp)
    ELSE IF exists THEN Structure_from_file(exists)
    ELSE Raised("TypeError", <<>>, <<>>, <<>>)

get_structure(o, exists, mp) ==
    IF exists THEN Structure_from_file(exists)
    ELSE IF startswith(o.filepath, MpPrefix) THEN Structure_from_mpid(mp)
    ELSE Raised("TypeError", <<>>, <<>>, <<>>)

\* A get_pseudotable whose PAW branch picks the norm-conserving table (the
\* commented-out line of the source) instead of raising.
get_pseudotable_paw_table(o, dojo) ==
    Then(Call("get_pseudotable"),
    IF o.pseudos # NoPseudos THEN Call("PseudoTable.as_table")
    ELSE IF ~dojo
    THEN Raised("ImportError", <<>>, <<"import pseudo_dojo">>, <<>>)
    ELSE Then(Call("import pseudo_dojo"), Then(Call("OfficialTables()"),
         Returned(0, <<"Using pseudos from PseudoDojo table">>,
                  <<"dojo_tables[ONCVPSP-PBE-PDv0.2-accuracy]">>, <<>>))))

\* dojo: whether `from pseudo_dojo import OfficialTables` succeeds.
get_pseudotable(o, dojo) ==
    Then(Call("get_pseudotable"),
    IF o.pseudos # NoPseudos THEN Call("PseudoTable.as_table")
    ELSE IF ~dojo
    THEN Raised("ImportError",
                <<"PseudoDojo package not installed. Please install it with pip install pseudo_dojo",
                  "or use --pseudos FILE_LIST to specify the pseudopotentials to use.">>,
                <<"import pseudo_dojo">>, <<>>)
    ELSE Then(Call("import pseudo_dojo"), Then(Call("OfficialTables()"),
         IF o.usepaw THEN Raised("NotImplementedError", <<>>, <<>>, <<>>)
         ELSE Returned(0, <<"Using pseudos from PseudoDojo table">>,
                       <<"dojo_tables[ONCVPSP-PBE-PDv0.2-accuracy]">>, <<>>))))

Disclaimer ==
    << "# This input file template has been automatically generated by the abinp.py script.",
       "# Several input parameters have default values that might not be suitable for you particular calculation.",
       "# Please check the input file, make sure you understand what's happening and modify the template according to your needs" >>

\* A finalize that prints the disclaimer before the deck.
finalize_disclaimer_first(o) ==
    Then(Call("finalize"),
    Then(IF o.mnemonics THEN Call("obj.set_mnemonics") ELSE Skip,
         Returned(0, Disclaimer \o <<"<deck>", "\n">>, <<>>, <<>>)))

finalize(o) ==
    Then(Call("finalize"),
    Then(IF o.mnemonics THEN Call("obj.set_mnemonics") ELSE Skip,
         Returned(0, <<"<deck>", "\n">> \o Disclaimer, <<>>, <<>>)))

(***************************************************************************)
(* What the external libraries hand back                                   *)
(***************************************************************************)
\* A dataset is a dict of input variables.  The factories are opaque: a
\* dataset they return may or may not already carry a getwfk of its own.
FactoryDatasets == { ("ecut" :> 8), ("ecut" :> 8 @@ "getwfk" :> 0) }
\* A MultiDataset of 1..MaxN datasets.
FactoryResults == SeqsOf(FactoryDatasets, 1, MaxN)
\* A single AbinitInput, kept as a one-dataset deck.
SingleResults == SeqsOf(FactoryDatasets, 1, 1)

\* The datasets of an input file: dataset i is recognisable by its ecut, and
\* may set chkprim and qpt.
FileDatasets(i) == { ("ecut" :> i), ("ecut" :> i @@ "chkprim" :> 1 @@ "qpt" :> 0) }
InputFiles ==
    UNION {{f \in [1..n -> UNION {FileDatasets(i) : i \in 1..n}] :
               \A i \in 1..n : f[i] \in FileDatasets(i)} : n \in 1..MaxNdtset}

(***************************************************************************)
(* build_abinit_input_from_file                                            *)
(***************************************************************************)
\* AbinitInputFile(path): raises when the path does not exist.
AbinitInputFile(exists) ==
    IF exists THEN Call("AbinitInputFile")
    ELSE CallRaises("AbinitInputFile", "FileNotFoundError")

\* abifile.datasets[jdtset - 1].get_vars(), then the jdtset entry, then the
\* overrides: the variables the AbinitInput is built from.
abi_kwargs(o, file, abivars) ==
    LET picked == getitem(file, o.jdtset - 1)
        marked == IF Len(file) # 1 THEN setitem(picked, "jdtset", o.jdtset) ELSE picked
    IN update(marked, abivars)

\* The outcome of build_abinit_input_from_file(options, **abivars).
build_abinit_input_from_file(o, exists, dojo, file, abivars) ==
    Then(AbinitInputFile(exists),
    Then(get_pseudotable(o, dojo),
    IF ~index_ok(file, o.jdtset - 1) THEN Raised("IndexError", <<>>, <<>>, <<>>)
    ELSE Then(IF Len(file) # 1
              THEN Printed("# Input file contains datasets, will select jdtset index")
              ELSE Skip,
              Call("abilab.AbinitInput"))))

\* The input it returns, as a one-dataset deck (empty when it raised).
built_input(o, exists, dojo, file, abivars) ==
    IF build_abinit_input_from_file(o, exists, dojo, file, abivars).exc = "none"
    THEN <<abi_kwargs(o, file, abivars)>>
    ELSE <<>>

\* inp.abivalidate(): runs abinit once; rc is the subprocess's return code.
abivalidate(rc) == Returned(0, <<>>, <<"inp.abivalidate">>, <<rc>>)

\* inp.abiget_*(): runs abinit once and parses what it wrote; the call either
\* returns the parsed answer or raises, whatever the return code was.
abiget(name, rc, raises) ==
    IF raises THEN Raised("AbinitError", <<>>, <<name>>, <<rc>>)
    ELSE Returned(0, <<>>, <<name>>, <<rc>>)

(***************************************************************************)
(* The handlers' bodies, as outcomes                                       *)
(***************************************************************************)
\* An abinp_validate that ends with `return 0`, like its neighbours.
validate_body_return_0(o, exists, dojo, file, rc) ==
    Then(Call("abinp_validate"),
    Then(build_abinit_input_from_file(o, exists, dojo, file, NoVars),
    Then(abivalidate(rc),
         IF rc = 0 THEN Returned(0, <<"Validation completed succesfully.">>, <<>>, <<>>)
         ELSE Returned(0, <<"<log_file> <stderr_file>">>, <<>>, <<>>))))

validate_body(o, exists, dojo, file, rc) ==
    Then(Call("abinp_validate"),
    Then(build_abinit_input_from_file(o, exists, dojo, file, NoVars),
    Then(abivalidate(rc),
         IF rc = 0 THEN Returned(rc, <<"Validation completed succesfully.">>, <<>>, <<>>)
         ELSE Returned(rc, <<"<log_file> <stderr_file>">>, <<>>, <<>>))))

autoparal_body(o, exists, dojo, file, rc, raises) ==
    Then(Call("abinp_autoparal"),
    Then(build_abinit_input_from_file(o, exists, dojo, file, NoVars),
    Then(abiget("inp.abiget_autoparal_pconfs", rc, raises),
         Returned(0, <<"<pconfs>">>, <<>>, <<>>))))

SpgOverrides == ("chkprim" :> 0 @@ "mem_test" :> 0)

abispg_body(o, exists, dojo, file, rc, raises) ==
    Then(Call("abinp_abispg"),
    Then(build_abinit_input_from_file(o, exists, dojo, file, SpgOverrides),
    Then(abivalidate(rc),
         IF rc # 0 THEN Returned(rc, <<"<log_file> <stderr_file>">>, <<>>, <<>>)
         ELSE IF raises
         THEN Returned(1, <<"Error while trying to parse output file:", "Exception:">>,
                       <<"abilab.abiopen">>, <<>>)
         ELSE Returned(0, <<"<spget_summary>">>
                          \o (IF o.verbose # 0 THEN <<"<abi_spacegroup>">> ELSE <<>>),
                       <<"abilab.abiopen">>, <<>>))))

ibz_body(o, exists, dojo, file, rc, raises) ==
    Then(Call("abinp_ibz"),
    Then(build_abinit_input_from_file(o, exists, dojo, file, NoVars),
    Then(abiget("inp.abiget_ibz", rc, raises),
         Returned(0, <<"kptopt 0 nkpt ", "kpts", "<points>", "\nwtk", "<weights>">>,
                  <<>>, <<>>))))

phperts_body(o, exists, dojo, file, rc, raises) ==
    Then(Call("abinp_phperts"),
    Then(build_abinit_input_from_file(o, exists, dojo, file, NoVars),
    Then(abiget(IF index_ok(file, o.jdtset - 1)
                   /\ "qpt" \in DOMAIN abi_kwargs(o, file, NoVars)
                THEN "inp.abiget_irred_phperts(qpt=None)"
                ELSE "inp.abiget_irred_phperts(qpt=[0, 0, 0])", rc, raises),
         Returned(0, <<"<perts>">>, <<>>, <<>>))))

\* Up to the factory call: the structure, the pseudopotentials, the factory.
gs_build(o, exists, dojo) ==
    Then(Call("abinp_gs"),
    Then(Structure_from_file(exists),
    Then(get_pseudotable(o, dojo),
         Call("factories.gs_input"))))

ebands_build(o, exists, dojo, mp) ==
    Then(Call("abinp_ebands"),
    Then(get_structure(o, exists, mp),
    Then(get_pseudotable(o, dojo),
         Call("factories.ebands_input"))))

phonons_build(o, exists, dojo, mp) ==
    Then(Call("abinp_phonons"),
    Then(get_structure(o, exists, mp),
    Then(get_pseudotable(o, dojo),
    Then(Call("factories.gs_input"),
         Call("factories.phonons_from_gsinput")))))

g0w0_build(o, exists, dojo, mp) ==
    Then(Call("abinp_g0w0"),
    Then(get_structure(o, exists, mp),
    Then(get_pseudotable(o, dojo),
         Call("factories.g0w0_with_ppmodel_inputs"))))

anaph_build(o, exists) ==
    Then(Call("abinp_anaph"),
    Then(IF exists THEN Call("DdbFile") ELSE CallRaises("DdbFile", "FileNotFoundError"),
         Call("AnaddbInput.phbands_and_dos")))

wannier90_build(o, exists) ==
    Then(Call("abinp_wannier90"),
         IF exists THEN Call("Wannier90Input.from_abinit_file")
         ELSE CallRaises("Wannier90Input.from_abinit_file", "FileNotFoundError"))

\* A loop over multi instead of multi[1:].
add_getwfk_from_first(multi) ==
    [i \in DOMAIN multi |-> setitem(multi[i], "getwfk", 1)]

\* for inp in multi[1:]: inp["getwfk"] = 1
add_getwfk(multi) ==
    [i \in DOMAIN multi |-> IF i >= 2 THEN setitem(multi[i], "getwfk", 1) ELSE multi[i]]

\* getscr set inside the loop instead of on multi[-1] alone.
add_getwfk_getscr_in_loop(multi) ==
    [i \in DOMAIN multi |->
        IF i >= 2 THEN setitem(setitem(multi[i], "getwfk", -1), "getscr", -1)
        ELSE multi[i]]

\* for inp in multi[1:]: inp["getwfk"] = -1
\* multi[-1]["getscr"] = -1
add_getwfk_getscr(multi) ==
    LET wfk == [i \in DOMAIN multi |->
                   IF i >= 2 THEN setitem(multi[i], "getwfk", -1) ELSE multi[i]]
    IN [wfk EXCEPT ![Len(wfk)] = setitem(wfk[Len(wfk)], "getscr", -1)]

(***************************************************************************)
(* main                                                                    *)
(***************************************************************************)
\* argparse as in Python 2: a missing sub-command is a parse error as well.
parse_args_required_command(a) ==
    IF a.command \notin Verbs \/ a.filepath = NoPath
    THEN [exc |-> "SystemExit", code |-> 2,
          err |-> <<"usage: abinp.py [-h] ...", "abinp.py: error: ...">>]
    ELSE [exc |-> "none", code |-> 0, err |-> <<>>]

\* parser.parse_args(): an unknown sub-command or a missing filepath makes
\* argparse write its usage line and its error message to stderr and raise
\* SystemExit(2); otherwise the namespace is returned.
parse_args(a) ==
    IF (a.command # None /\ a.command \notin Verbs)
       \/ (a.command \in Verbs /\ a.filepath = NoPath)
    THEN [exc |-> "SystemExit", code |-> 2,
          err |-> <<"usage: abinp.py [-h] ...", "abinp.py: error: ...">>]
    ELSE [exc |-> "none", code |-> 0, err |-> <<>>]

\* `except Exception` catches what derives from Exception; SystemExit derives
\* from BaseException only.
except_Exception(e) == e \notin {"none", "SystemExit", "KeyboardInterrupt", "GeneratorExit"}

get_epilog == "<epilog: Usage example: ...>"

\* The process ends: sys.exit(code), or an uncaught exception (status 1 and a
\* traceback on stderr).
Exit(code, e, out, err, cs, rcs, fout, dk) ==
    /\ pc' = "exit"
    /\ exitcode' = IF e = "none" THEN ExitStatus(code) ELSE 1
    /\ exc' = e
    /\ stdout' = stdout \o out
    /\ stderr' = stderr \o err \o (IF e = "none" THEN <<>> ELSE <<"Traceback">>)
    /\ calls' = calls \o cs
    /\ retcodes' = rcs
    /\ factoryOut' = fout
    /\ deck' = dk
    /\ UNCHANGED <<argv, env, options>>
    /\ UNCHANGED ucellVars

\* show_examples_and_exit(error_code=code), called without err_msg.
show_examples_and_exit(code) ==
    Exit(code, "none", <<>>, <<get_epilog>>, <<>>, <<>>, <<>>, <<>>)

\* main() up to the dispatch.
main ==
    /\ pc = "start"
    /\ LET p == parse_args(argv) IN
       IF p.exc # "none"
       THEN IF except_Exception(p.exc)
            THEN show_examples_and_exit(1)
            ELSE Exit(p.code, "none", <<>>, p.err, <<>>, <<>>, <<>>, <<>>)
       ELSE IF argv.command = None
       THEN show_examples_and_exit(1)
       ELSE IF upper(argv.loglevel) \notin LoggingLevels
       THEN Exit(0, "ValueError", <<>>, <<>>, <<>>, <<>>, <<>>, <<>>)
       ELSE /\ pc' = "dispatch"
            /\ options' = argv
            /\ calls' = calls \o <<"logging.basicConfig">>
            /\ UNCHANGED <<argv, env, exitcode, exc, stdout, stderr, retcodes,
                           factoryOut, deck>>
            /\ UNCHANGED ucellVars

\* A handler returned r (or raised); main returns its value to sys.exit().
Finish(r, fout, dk) ==
    Exit(r.ret, r.exc, r.out, <<>>, r.calls, r.rcs, fout, dk)

Dispatch(verb) == pc = "dispatch" /\ options.command = verb

(***************************************************************************)
(* The handlers                                                            *)
(***************************************************************************)
abinp_validate ==
    /\ Dispatch("validate")
    /\ \E dojo \in BOOLEAN, file \in InputFiles, rc \in RetCodes :
          Finish(validate_body(options, env.exists, dojo, file, rc), <<>>,
                 built_input(options, env.exists, dojo, file, NoVars))

abinp_autoparal ==
    /\ Dispatch("autoparal")
    /\ \E dojo \in BOOLEAN, file \in InputFiles, rc \in RetCodes, raises \in BOOLEAN :
          Finish(autoparal_body(options, env.exists, dojo, file, rc, raises), <<>>,
                 built_input(options, env.exists, dojo, file, NoVars))

abinp_abispg ==
    /\ Dispatch("abispg")
    /\ \E dojo \in BOOLEAN, file \in InputFiles, rc \in RetCodes, raises \in BOOLEAN :
          Finish(abispg_body(options, env.exists, dojo, file, rc, raises), <<>>,
                 built_input(options, env.exists, dojo, file, SpgOverrides))

abinp_ibz ==
    /\ Dispatch("ibz")
    /\ \E dojo \in BOOLEAN, file \in InputFiles, rc \in RetCodes, raises \in BOOLEAN :
          Finish(ibz_body(options, env.exists, dojo, file, rc, raises), <<>>,
                 built_input(options, env.exists, dojo, file, NoVars))

abinp_phperts ==
    /\ Dispatch("phperts")
    /\ \E dojo \in BOOLEAN, file \in InputFiles, rc \in RetCodes, raises \in BOOLEAN :
          Finish(phperts_body(options, env.exists, dojo, file, rc, raises), <<>>,
                 built_input(options, env.exists, dojo, file, NoVars))

\* A deck-generation handler: when the build returned, the factory's result
\* is post-processed and finalized; otherwise the exception ends the process.
Generate(build, result, patched) ==
    IF build.exc # "none" THEN Finish(build, <<>>, <<>>)
    ELSE Finish(Then(build, finalize(options)), result, patched)

abinp_gs ==
    /\ Dispatch("gs")
    /\ \E dojo \in BOOLEAN, gsinp \in SingleResults :
          Generate(gs_build(options, env.exists, dojo), gsinp, gsinp)

abinp_ebands ==
    /\ Dispatch("ebands")
    /\ \E dojo \in BOOLEAN, mp \in BOOLEAN, multi \in FactoryResults :
          Generate(ebands_build(options, env.exists, dojo, mp), multi, add_getwfk(multi))

abinp_phonons ==
    /\ Dispatch("phonons")
    /\ \E dojo \in BOOLEAN, mp \in BOOLEAN, multi \in FactoryResults :
          Generate(phonons_build(options, env.exists, dojo, mp), multi, add_getwfk(multi))

abinp_g0w0 ==
    /\ Dispatch("g0w0")
    /\ \E dojo \in BOOLEAN, mp \in BOOLEAN, multi \in FactoryResults :
          Generate(g0w0_build(options, env.exists, dojo, mp), multi,
                   add_getwfk_getscr(multi))

abinp_anaph ==
    /\ Dispatch("anaph")
    /\ \E inp \in SingleResults :
          Generate(anaph_build(options, env.exists), inp, inp)

abinp_wannier90 ==
    /\ Dispatch("wannier90")
    /\ \E inp \in SingleResults :
          Generate(wannier90_build(options, env.exists), inp, inp)

(***************************************************************************)
(* Specifications                                                          *)
(***************************************************************************)
CliInit ==
    /\ argv \in CommandLines
    /\ env \in [exists : BOOLEAN]
    /\ pc = "start"
    /\ options = MkArgv(None, "ERROR", DefaultSubArgs)
    /\ exitcode = 0
    /\ exc = "none"
    /\ stdout = <<>>
    /\ stderr = <<>>
    /\ calls = <<>>
    /\ retcodes = <<>>
    /\ factoryOut = <<>>
    /\ deck = <<>>

\* One invocation of abinp.py; the registry is not touched by it.
Init == UcellInit /\ CliInit

Next ==
    \/ main
    \/ abinp_validate
    \/ abinp_autoparal
    \/ abinp_abispg
    \/ abinp_ibz
    \/ abinp_phperts
    \/ abinp_gs
    \/ abinp_ebands
    \/ abinp_phonons
    \/ abinp_g0w0
    \/ abinp_anaph
    \/ abinp_wannier90

Spec == Init /\ [][Next]_vars

\* Callers of the registry: lookups and writes through the records returned.
UcellSpecInit ==
    /\ UcellInit
    /\ CliInit
    /\ argv = MkArgv(None, "ERROR", DefaultSubArgs)
    /\ env = [exists |-> FALSE]

UcellNext ==
    \/ \E name \in LookupNames : ucell(name)
    \/ \E i \in 1..MaxCalls, key \in Keys, w \in MutVals : CallerSetKey(i, key, w)
    \/ \E i \in 1..MaxCalls, key \in Keys, j \in Cols, w \in MutVals :
          CallerSetItem(i, key, j, w)
    \/ \E i \in 1..MaxCalls, key \in Keys, j \in Cols, c \in Cols, w \in MutVals :
          CallerSetNested(i, key, j, c, w)

UcellSpec == UcellSpecInit /\ [][UcellNext]_vars

(***************************************************************************)
(* Properties                                                              *)
(***************************************************************************)
Has(seq, x) == \E i \in DOMAIN seq : seq[i] = x
Exited == pc = "exit"
Ran(verb) == Exited /\ Has(calls, "abinp_" \o verb)
InputFileVerbs == {"validate", "autoparal", "abispg", "ibz", "phperts"}
StructureVerbs == {"gs", "ebands", "phonons", "g0w0"}
MpPath == startswith(argv.filepath, MpPrefix)

\* C1: for every registered name, the stored registry entry and every record
\* ucell() returned that its caller has not written through keep the value of
\* the _UCELLS literal, whatever was written through the other returned
\* records, nested lists included.
C1_MutationIsolation ==
    /\ \A n \in Names :
          Deep(heap, Ref(_UCELLS[n])) = Deep(HeapAtImport, Ref(_UCELLS[n]))
    /\ \A i \in DOMAIN returned :
          i \notin mutated =>
             Deep(heap, Ref(returned[i].addr))
                = Deep(HeapAtImport, Ref(_UCELLS[returned[i].name]))

\* C2 (as claimed): whenever get_pseudotable is called with usepaw=True the
\* call fails with NotImplementedError, whatever the other options are.
C2_UsepawAlwaysFails ==
    (Exited /\ options.usepaw /\ Has(calls, "get_pseudotable"))
        => exc = "NotImplementedError"

\* C2 (amended): with usepaw=True, get_pseudotable fails with
\* NotImplementedError exactly when no --pseudos list was given and the
\* official-tables provider could be imported; with an explicit list it builds
\* the table from the list without loading the provider; with no list and no
\* provider it fails with ImportError; it never selects the official table.
C2_UsepawFailsOnlyOnOfficialTables ==
    (Exited /\ options.usepaw /\ Has(calls, "get_pseudotable")) =>
        /\ ~Has(calls, "dojo_tables[ONCVPSP-PBE-PDv0.2-accuracy]")
        /\ (exc = "NotImplementedError")
              <=> (options.pseudos = NoPseudos /\ Has(calls, "OfficialTables()"))
        /\ options.pseudos # NoPseudos =>
              /\ Has(calls, "PseudoTable.as_table")
              /\ ~Has(calls, "import pseudo_dojo")
        /\ (options.pseudos = NoPseudos /\ ~Has(calls, "OfficialTables()"))
              => exc = "ImportError"

C2_Witness ==
    /\ Exited /\ options.usepaw /\ Has(calls, "get_pseudotable")
    /\ options.pseudos = NoPseudos
    /\ exc = "NotImplementedError"

\* C3: get_structure (as run by ebands, phonons and g0w0) loads from the file
\* whenever the path exists, "mp-" prefix or not, and then never tries the
\* remote lookup; a missing path with the prefix goes to the remote lookup
\* only; a missing path without it fails with TypeError having called
\* neither.
C3_StructurePrecedence ==
    (Exited /\ options.command \in {"ebands", "phonons", "g0w0"}) =>
        /\ env.exists =>
              Has(calls, "Structure.from_file") /\ ~Has(calls, "Structure.from_mpid")
        /\ (~env.exists /\ MpPath) =>
              Has(calls, "Structure.from_mpid") /\ ~Has(calls, "Structure.from_file")
        /\ (~env.exists /\ ~MpPath) =>
              /\ exc = "TypeError"
              /\ ~Has(calls, "Structure.from_file")
              /\ ~Has(calls, "Structure.from_mpid")

C3_Witness ==
    /\ Ran("ebands") /\ env.exists /\ MpPath
    /\ Has(calls, "Structure.from_file")

\* C4: a command line whose verb is not registered, or that fails to parse in
\* another way, ends with the usage text on stderr and exit code 1, and no
\* handler is run.
C4_ParseFailureExitsOne ==
    (Exited /\ (argv.command \notin Verbs \cup {None}
                \/ (argv.command \in Verbs /\ argv.filepath = NoPath))) =>
        /\ exitcode = 1
        /\ stderr # <<>>
        /\ \A v \in Verbs : ~Has(calls, "abinp_" \o v)

\* C5: with no verb, main writes the usage text to stderr and exits with
\* code 1; no handler runs, the log level is not looked at and nothing is
\* dispatched.
C5_NoVerbUsageExitOne ==
    (Exited /\ argv.command = None) =>
        /\ exitcode = 1
        /\ exc = "none"
        /\ stderr = <<get_epilog>>
        /\ stdout = <<>>
        /\ calls = <<>>

C5_Witness ==
    /\ Exited /\ argv.command = None /\ argv.loglevel = "bogus"
    /\ exitcode = 1 /\ stderr = <<get_epilog>>

\* C6: after abinp_ebands (and abinp_phonons) post-processed N >= 2 datasets,
\* every dataset 2..N has getwfk = 1 and dataset 1 is as the factory left it.
C6_EbandsGetwfk ==
    (Exited /\ options.command \in {"ebands", "phonons"} /\ Len(deck) >= 2) =>
        /\ Len(deck) = Len(factoryOut)
        /\ \A i \in 2..Len(deck) :
              "getwfk" \in DOMAIN deck[i] /\ deck[i]["getwfk"] = 1
        /\ deck[1] = factoryOut[1]

C6_Witness ==
    /\ Ran("ebands") /\ Len(deck) = MaxN
    /\ "getwfk" \notin DOMAIN deck[1]
    /\ "getwfk" \notin DOMAIN factoryOut[MaxN]
    /\ deck[MaxN]["getwfk"] = 1

\* C7 (as claimed): for validate, autoparal, abispg, ibz and phperts, a
\* subprocess that ended with a nonzero return code makes the exit code
\* nonzero.
C7_NonzeroRetcodeSurfaces ==
    (Exited /\ options.command \in InputFileVerbs
        /\ retcodes # <<>> /\ retcodes[1] # 0) => exitcode # 0

\* C7 (amended): validate and abispg return the subprocess's nonzero return
\* code as their own result, so that the exit code is nonzero; autoparal, ibz
\* and phperts do not look at a return code: they return 0 whenever the
\* library call returns, and fail only by the exception it raises.
C7_RetcodeSurfacesInValidateAbispg ==
    (Exited /\ retcodes # <<>>) =>
        /\ (options.command \in {"validate", "abispg"} /\ retcodes[1] # 0) =>
              /\ exc = "none"
              /\ exitcode = ExitStatus(retcodes[1])
              /\ exitcode # 0
        /\ (options.command \in {"autoparal", "ibz", "phperts"} /\ exc = "none") =>
              exitcode = 0

C7_Witness ==
    /\ Ran("validate") /\ retcodes = <<-9>> /\ exitcode # 0

\* C8: gs with an existing structure file and an explicit pseudopotential list
\* prints the deck and then the three-line disclaimer and exits with 0 without
\* loading the official-tables provider; whenever finalize ran, for any deck
\* and either value of mnemonics, the exit code is 0 and the output ends with
\* the deck followed by the disclaimer.
C8_GsDeckThenDisclaimer ==
    /\ (Exited /\ options.command = "gs" /\ env.exists /\ options.pseudos # NoPseudos) =>
          /\ stdout = <<"<deck>", "\n">> \o Disclaimer
          /\ exitcode = 0
          /\ exc = "none"
          /\ ~Has(calls, "import pseudo_dojo")
          /\ ~Has(calls, "OfficialTables()")
    /\ (Exited /\ Has(calls, "finalize")) =>
          /\ exitcode = 0
          /\ exc = "none"
          /\ Len(stdout) >= 5
          /\ SubSeq(stdout, Len(stdout) - 4, Len(stdout)) = <<"<deck>", "\n">> \o Disclaimer

C8_Witness ==
    /\ Ran("gs") /\ env.exists /\ options.pseudos # NoPseudos /\ options.mnemonics
    /\ Has(calls, "finalize") /\ exitcode = 0

\* C9: gs, ebands, phonons and g0w0 resolve the same filepath the same way: a
\* missing path beginning with "mp-" takes each of them to the remote lookup,
\* and a missing path without the prefix to the TypeError.
C9_SameStructureResolution ==
    (Exited /\ options.command \in StructureVerbs /\ ~env.exists) =>
        /\ MpPath => Has(calls, "Structure.from_mpid")
        /\ ~MpPath => exc = "TypeError"

\* C10 (as claimed): after abinp_g0w0 post-processed N >= 1 datasets, every
\* dataset 2..N has getwfk = -1, the last dataset and no other was given
\* getscr = -1, and dataset 1 was given neither.
C10_G0W0EveryN ==
    (Exited /\ options.command = "g0w0" /\ Len(deck) >= 1) =>
        /\ Len(deck) = Len(factoryOut)
        /\ \A i \in 2..Len(deck) :
              "getwfk" \in DOMAIN deck[i] /\ deck[i]["getwfk"] = -1
        /\ "getscr" \in DOMAIN deck[Len(deck)] /\ deck[Len(deck)]["getscr"] = -1
        /\ \A i \in 1..(Len(deck) - 1) :
              ("getscr" \in DOMAIN deck[i]) <=> ("getscr" \in DOMAIN factoryOut[i])
        /\ deck[1] = factoryOut[1]

\* C10 (amended): the same for N >= 2; with a single dataset, that dataset is
\* the last one and is given getscr = -1.
C10_G0W0TwoOrMore ==
    /\ (Exited /\ options.command = "g0w0" /\ Len(deck) >= 2) =>
          /\ Len(deck) = Len(factoryOut)
          /\ \A i \in 2..Len(deck) :
                "getwfk" \in DOMAIN deck[i] /\ deck[i]["getwfk"] = -1
          /\ "getscr" \in DOMAIN deck[Len(deck)] /\ deck[Len(deck)]["getscr"] = -1
          /\ \A i \in 1..(Len(deck) - 1) :
                ("getscr" \in DOMAIN deck[i]) <=> ("getscr" \in DOMAIN factoryOut[i])
          /\ deck[1] = factoryOut[1]
    /\ (Exited /\ options.command = "g0w0" /\ Len(deck) = 1) =>
          /\ "getscr" \in DOMAIN deck[1] /\ deck[1]["getscr"] = -1
          /\ "getwfk" \in DOMAIN deck[1] <=> "getwfk" \in DOMAIN factoryOut[1]

C10_Witness ==
    /\ Ran("g0w0") /\ Len(deck) = MaxN
    /\ deck[2]["getwfk"] = -1
    /\ "getscr" \notin DOMAIN deck[2]
    /\ deck[MaxN]["getscr"] = -1

\* C11: build_abinit_input_from_file uses the variables of the dataset whose
\* 1-based position is jdtset and of no other one (dataset i of a file is the
\* one with ecut = i), so an input is built only for jdtset in 1..ndtset; and
\* the handler's overrides (chkprim=0, mem_test=0 for abispg) replace the
\* file's variables of the same name.
C11_DatasetByOneBasedIndex ==
    (Exited /\ options.command \in InputFileVerbs /\ deck # <<>>) =>
        /\ options.jdtset >= 1
        /\ deck[1]["ecut"] = options.jdtset
        /\ options.command = "abispg" =>
              /\ "chkprim" \in DOMAIN deck[1] /\ deck[1]["chkprim"] = 0
              /\ "mem_test" \in DOMAIN deck[1] /\ deck[1]["mem_test"] = 0

====
